---- MODULE Spec2Model ----
(***************************************************************************)
(* NextBid authentication gateway.                                         *)
(*                                                                         *)
(*   Spec        the JWT gateway of server.js: token issue / verify /      *)
(*               refresh, admission (requireAuth, requireAdmin), the       *)
(*               route table and the header-injecting reverse proxy.       *)
(*   SpecSession the session-cookie gateways (middleware/gateway-auth.js   *)
(*               second half and the patcher login gateway) and their      *)
(*               proxies.                                                  *)
(*   SpecPool    the shared credential pool of database/auth-schema.sql    *)
(*               with concurrent borrowers.                                *)
(*                                                                         *)
(* Time is counted in hours.  JavaScript objects are records; a property   *)
(* that is absent from an object is absent from the record's DOMAIN.       *)
(***************************************************************************)
EXTENDS Integers, FiniteSets, Sequences, TLC

VARIABLES
  now,        \* wall clock of the gateway, in hours
  directory,  \* nextbid_users rows, by id
  jar,        \* the browser's accessToken / refreshToken cookies
  resp,       \* the last request handled by the JWT gateway and its outcome
  session,    \* express-session: req.session.user of the session gateways
  sresp,      \* the last request handled by a session gateway
  creds,      \* nextbid_company_credentials rows, by id
  companies,  \* nextbid_companies.is_active, by company id
  clock,      \* NOW() of the database
  borrower,   \* each get_next_credential call in progress
  streak,     \* per credential: reportFailure calls since the last other report
  bresp,      \* the last request handled by a backend's gateway-auth middleware
  aresp,      \* the last request handled by the internal service API
  vault,      \* nextbid_company_credentials as the gateway's handlers use it:
              \* the columns the profile form writes, by <<company, source>>
  INTERNAL_API_KEY, \* process.env.INTERNAL_API_KEY
  flight,     \* requests in progress in requireAuth, by request
  changedAt   \* history: when an operator last changed a directory row

vars == <<now, directory, jar, resp, session, sresp,
          creds, companies, clock, borrower, streak, bresp, aresp,
          vault, INTERNAL_API_KEY, flight, changedAt>>
gwVars == <<now, directory, jar, resp>>
ssVars == <<session, sresp>>
poolVars == <<creds, companies, clock, borrower, streak>>
extVars == <<bresp, aresp, vault, INTERNAL_API_KEY, flight, changedAt>>

----------------------------------------------------------------------------
(* Bounds of the model *)

MaxTime == 168
MaxFailures == 8
MaxSuccesses == 1
MaxClock == 3

----------------------------------------------------------------------------
(* JavaScript values *)

Null == [null |-> TRUE]

Has(o, k) == k \in DOMAIN o

\* o[k] || dflt for string-valued properties: undefined and '' are falsy
OrElse(o, k, dflt) == IF Has(o, k) /\ o[k] # "" THEN o[k] ELSE dflt

----------------------------------------------------------------------------
(* JWT configuration and helpers (server.js) *)

JWT_SECRET == "nextbid-jwt-secret"
JWT_EXPIRES_IN == 1
REFRESH_EXPIRES_IN == 168

UserIds == {"u1"}
Roles == {"superadmin", "user"}
Domains == {"engine", "portal"}

\* a row of nextbid_users
UserRow(id, role, domain, active) ==
  [id |-> id, email |-> "a@x.io", name |-> "Ann", company_id |-> "co1",
   domain |-> domain, role |-> role, products |-> {"nextbid"},
   is_active |-> active]

\* the Identity of a user: id, email, display name, company id, domain,
\* role and product entitlements
Identity(user) ==
  [id |-> user.id, email |-> user.email, name |-> user.name,
   company_id |-> user.company_id, domain |-> user.domain,
   role |-> user.role, products |-> user.products]

\* jwt.sign adds iat and exp to the payload and signs with the secret
generateTokens(user, t) ==
  [accessToken |->
     [sig |-> JWT_SECRET,
      claims |-> [id |-> user.id, email |-> user.email, name |-> user.name,
                  company_id |-> user.company_id, domain |-> user.domain,
                  role |-> user.role,
                  iat |-> t, exp |-> t + JWT_EXPIRES_IN]],
   refreshToken |->
     [sig |-> JWT_SECRET,
      claims |-> [id |-> user.id, type |-> "refresh",
                  iat |-> t, exp |-> t + REFRESH_EXPIRES_IN]]]

\* the cookie is not sent
NoToken == [sig |-> "absent", claims |-> [exp |-> 0]]

\* a well-formed token signed with a secret other than JWT_SECRET
ForgedToken ==
  [sig |-> "other-secret",
   claims |-> [id |-> "u1", email |-> "a@x.io", name |-> "Ann",
               company_id |-> "co1", domain |-> "engine",
               role |-> "superadmin", type |-> "refresh",
               iat |-> 0, exp |-> 1000]]

\* a cookie value that is not a JWT
MalformedToken == [sig |-> "malformed", claims |-> [exp |-> 0]]

NoPair == [accessToken |-> NoToken, refreshToken |-> NoToken]

\* an exception leaving a call
Thrown == [thrown |-> TRUE]

\* jwt.verify(token, JWT_SECRET): the payload when the signature matches and
\* exp is in the future; throws JsonWebTokenError / TokenExpiredError
\* otherwise (also for undefined and for a string that is not a JWT)
jwtVerify(token, t) ==
  IF token.sig = JWT_SECRET /\ t < token.claims.exp
    THEN token.claims
    ELSE Thrown

\* catch (error) { return null }
Caught(result) == IF result = Thrown THEN Null ELSE result

VerifyIgnoringExpiry(token, t) ==
  IF token.sig = JWT_SECRET THEN token.claims ELSE Null

VerifyUncaught(token, t) == jwtVerify(token, t)

\* try { return jwt.verify(token, JWT_SECRET) } catch (error) { return null }
verifyToken(token, t) == Caught(jwtVerify(token, t))


\* setAuthCookies: the Set-Cookie headers of the response, one per cookie
setAuthCookies(accessToken, refreshToken) ==
  [accessToken |-> accessToken, refreshToken |-> refreshToken]

ReissueAccessOnly(tokens) == setAuthCookies(tokens.accessToken, NoToken)

\* the refresh path of requireAuth: setAuthCookies(res, tokens.accessToken,
\* tokens.refreshToken)
ReissueCookies(tokens) ==
  setAuthCookies(tokens.accessToken, tokens.refreshToken)

\* the browser's cookies after a response: a cookie the response sets
\* replaces the stored one, the others stay
StoreCookies(stored, setCookies) ==
  [c \in {"accessToken", "refreshToken"} |->
     IF setCookies[c] # NoToken THEN setCookies[c] ELSE stored[c]]

----------------------------------------------------------------------------
(* Routes of the JWT gateway (server.js, proxy route table) *)

\* app.use mounts: req.path is the path below the mount point
MountedRoutes == {"/dashboard", "/css", "/js", "/images",
                  "/patcher", "/dev-sync", "/tradelines"}
AdminRoutes == {"/patcher", "/dev-sync"}

tradelinePorts ==
  [security |-> 3002, administrative |-> 3003, facilities |-> 3004,
   electrical |-> 3005, logistics |-> 3006, lowvoltage |-> 3007,
   landscaping |-> 3008, hvac |-> 3009, plumbing |-> 3010,
   janitorial |-> 3011, support |-> 3012, waste |-> 3013,
   construction |-> 3014, roofing |-> 3015, painting |-> 3016,
   flooring |-> 3017, demolition |-> 3018, environmental |-> 3019,
   concrete |-> 3020, fencing |-> 3021]

\* tradelinePorts[name]: own entry, a property every object literal
\* inherits from Object.prototype (truthy, not a number), or undefined
PortLookup(name) ==
  IF name \in DOMAIN tradelinePorts
    THEN [kind |-> "own", port |-> tradelinePorts[name]]
    ELSE IF name \in {"constructor", "__proto__", "toString"}
      THEN [kind |-> "inherited", port |-> 0]
      ELSE [kind |-> "undefined", port |-> 0]

\* req.path as the middleware sees it
ReqPath(req) == IF req.route \in MountedRoutes THEN req.sub ELSE req.route

NeverApiPath(path) == FALSE

\* req.path.startsWith('/api/')
IsApiPath(path) == path = "/api/data"

----------------------------------------------------------------------------
(* Auth middleware (server.js) *)

AnyUser(dir, id) == IF id \in DOMAIN dir THEN dir[id] ELSE Null

\* supabase ... .eq('id', id).eq('is_active', true).single()
ActiveUser(dir, id) ==
  IF id \in DOMAIN dir /\ dir[id].is_active THEN dir[id] ELSE Null

AnyVerifiedPayload(p) == p # Null

\* refreshPayload && refreshPayload.type === 'refresh'
IsRefreshPayload(p) == p # Null /\ Has(p, "type") /\ p.type = "refresh"

RefreshWheneverPresent(user, refreshToken) == refreshToken # NoToken

\* !user && refreshToken: the refresh path is entered only when the access
\* token did not verify and a refreshToken cookie was sent
TryRefresh(user, refreshToken) == user = Null /\ refreshToken # NoToken

\* the part of requireAuth up to the decision: the identity it derives, the
\* path that produced it, the cookies it sets and the directory reads it made
Authenticate(req, t, dir) ==
  LET accessToken  == req.cookies.accessToken
      refreshToken == req.cookies.refreshToken
      user0        == verifyToken(accessToken, t)
      tryRefresh   == TryRefresh(user0, refreshToken)
      refreshPayload == IF tryRefresh THEN verifyToken(refreshToken, t) ELSE Null
      lookup       == tryRefresh /\ IsRefreshPayload(refreshPayload)
      dbUser       == IF lookup THEN ActiveUser(dir, refreshPayload.id) ELSE Null
      refreshed    == dbUser # Null
      tokens       == IF refreshed THEN generateTokens(dbUser, t) ELSE NoPair
  IN  [user |-> IF refreshed THEN verifyToken(tokens.accessToken, t) ELSE user0,
       via |-> IF refreshed THEN "refresh"
               ELSE IF user0 # Null THEN "access" ELSE "none",
       setCookies |-> IF refreshed
                        THEN ReissueCookies(tokens)
                        ELSE NoPair,
       lookups |-> IF lookup THEN 1 ELSE 0]

\* requireAuth: 401 for API paths, redirect to /login otherwise, else next()
requireAuth(req, t, dir) ==
  LET a == Authenticate(req, t, dir)
  IN  [user |-> a.user, via |-> a.via, setCookies |-> a.setCookies,
       lookups |-> a.lookups,
       outcome |-> IF a.user = Null
                     THEN (IF IsApiPath(ReqPath(req)) THEN "401" ELSE "redirect")
                     ELSE "next"]

AnyAuthenticated(user) == user # Null

EngineOnly(user) ==
  user # Null /\ Has(user, "domain") /\ user.domain = "engine"

\* requireAdmin: next() iff req.user is engine or superadmin, else 403
requireAdmin(user) ==
  user # Null /\ ( (Has(user, "domain") /\ user.domain = "engine")
                   \/ (Has(user, "role") /\ user.role = "superadmin") )

----------------------------------------------------------------------------
(* Reverse proxy with user headers (server.js, createAuthProxy) *)

\* header names are case-insensitive; lower case as in req.headers
IdentityHeaders == {"x-user-id", "x-user-email", "x-user-name", "x-user-role",
                    "x-user-domain", "x-company-id", "x-gateway-auth"}
HeaderNames == IdentityHeaders \cup {"x-nextbid-user", "x-nextbid-role"}

\* a header carries its value and who wrote it
Absent == [val |-> "", src |-> "absent"]
FromCaller(v) == [val |-> v, src |-> "caller"]
FromGateway(v) == [val |-> v, src |-> "gateway"]

NoHeaders == [h \in HeaderNames |-> Absent]

\* a caller that claims to be a superadmin coming through the gateway
SpoofedHeaders ==
  [h \in HeaderNames |->
     CASE h = "x-gateway-auth" -> FromCaller("true")
       [] h = "x-user-role"    -> FromCaller("superadmin")
       [] h = "x-user-domain"  -> FromCaller("engine")
       [] h = "x-user-id"      -> FromCaller("u0")
       [] h = "x-nextbid-role" -> FromCaller("superadmin")
       [] OTHER                -> Absent]

InboundHeaders == {NoHeaders, SpoofedHeaders}

NoForward == [sent |-> FALSE]

\* the path rewrite of each mount: the prefix the backend sees
RewrittenPrefix(route) ==
  CASE route = "/dashboard"  -> ""
    [] route = "/dev-sync"   -> "/dev"
    [] route = "/tradelines" -> ""
    [] OTHER                 -> route

PassInbound(headers, user) == headers

\* onProxyReq: the outgoing request starts with the inbound headers
\* (http-proxy copies req.headers); setHeader replaces the seven identity
\* headers when req.user is set
InjectedHeaders(headers, user) ==
  IF user = Null THEN headers
  ELSE [h \in HeaderNames |->
     CASE h = "x-user-id"      -> FromGateway(user.id)
       [] h = "x-user-email"   -> FromGateway(user.email)
       [] h = "x-user-name"    -> FromGateway(OrElse(user, "name", ""))
       [] h = "x-user-role"    -> FromGateway(OrElse(user, "role", "user"))
       [] h = "x-user-domain"  -> FromGateway(OrElse(user, "domain", "portal"))
       [] h = "x-company-id"   -> FromGateway(OrElse(user, "company_id", ""))
       [] h = "x-gateway-auth" -> FromGateway("true")
       [] OTHER                -> headers[h]]

\* createAuthProxy(target, pathRewrite)(req, res, next);
\* proxyReq.setHeader(name, undefined) throws ERR_HTTP_INVALID_HEADER_VALUE
createAuthProxy(port, prefix, req, user) ==
  IF user # Null /\ (~ Has(user, "id") \/ ~ Has(user, "email"))
    THEN [outcome |-> "throw", body |-> "", forward |-> NoForward]
    ELSE [outcome |-> "proxy", body |-> "",
          forward |-> [sent |-> TRUE, port |-> port, prefix |-> prefix,
                       sub |-> req.sub,
                       headers |-> InjectedHeaders(req.headers, user)]]

\* the middleware chain after requireAuth has called next()
RouteHandler(req, user) ==
  CASE req.route \in {"/dashboard", "/css", "/js", "/images"} ->
         createAuthProxy(7500, RewrittenPrefix(req.route), req, user)
    [] req.route \in AdminRoutes ->
         IF requireAdmin(user)
           THEN createAuthProxy(7101, RewrittenPrefix(req.route), req, user)
           ELSE [outcome |-> "403",
                 body |-> "Forbidden - Admin access required",
                 forward |-> NoForward]
    [] req.route = "/tradelines" ->
         LET port == PortLookup(req.name)
         IN  IF port.kind = "undefined"
               THEN [outcome |-> "404", body |-> "Unknown tradeline",
                     forward |-> NoForward]
               ELSE createAuthProxy(port.port, RewrittenPrefix(req.route),
                                    req, user)
    [] OTHER ->
         [outcome |-> "render", body |-> req.route, forward |-> NoForward]

\* supabase.from('nextbid_audit_log').insert({ user_id, action, ... })
AuditEntry(user_id, action) == [user_id |-> user_id, action |-> action]

\* what a handler that inserts nothing leaves in nextbid_audit_log
NoAudit == << >>

\* one request through requireAuth and the route's handlers; none of them
\* writes to nextbid_audit_log
Handle(req, t, dir) ==
  LET auth == requireAuth(req, t, dir)
      h    == IF auth.outcome = "next"
                THEN RouteHandler(req, auth.user)
                ELSE [outcome |-> auth.outcome,
                      body |-> IF auth.outcome = "401" THEN "Unauthorized"
                                                        ELSE "/login",
                      forward |-> NoForward]
  IN  [kind |-> "request", req |-> req, at |-> t,
       user |-> auth.user, via |-> auth.via,
       setCookies |-> auth.setCookies, lookups |-> auth.lookups,
       next |-> auth.outcome = "next",
       outcome |-> h.outcome, body |-> h.body, forward |-> h.forward,
       audit |-> NoAudit]

----------------------------------------------------------------------------
(* The JWT gateway as a state machine *)

\* the instants at which the model looks at the clock: up to the expiry of
\* an access token issued at 0, and from the expiry of a refresh token
\* issued at 0
Instants == {t \in 0..MaxTime :
               t <= JWT_EXPIRES_IN \/ t >= REFRESH_EXPIRES_IN}

\* the requests the model sends: route, tradeline name, path below the mount
Target(route, name, sub) == [route |-> route, name |-> name, sub |-> sub]
ReqTargets ==
  {Target("/dashboard", "", "/"), Target("/dashboard", "", "/api/data"),
   Target("/patcher", "", "/"), Target("/dev-sync", "", "/"),
   Target("/tradelines", "security", "/"),
   Target("/tradelines", "nosuch", "/"),
   Target("/opportunities", "", "/")}

Cookies(a, r) == [accessToken |-> a, refreshToken |-> r]

\* what a caller can send as cookies: the pair it holds as issued, either
\* token alone, either token alone in the other position, nothing,
\* forgeries, or strings that are no tokens
Presentable ==
  {Cookies(jar.accessToken, jar.refreshToken),
   Cookies(jar.accessToken, NoToken),
   Cookies(NoToken, jar.refreshToken),
   Cookies(jar.refreshToken, NoToken),
   Cookies(NoToken, jar.accessToken),
   Cookies(NoToken, NoToken),
   Cookies(ForgedToken, ForgedToken),
   Cookies(MalformedToken, MalformedToken)}

GwInit ==
  /\ now = 0
  /\ directory \in [UserIds -> {UserRow(id, r, d, TRUE) :
                                  id \in UserIds, r \in Roles, d \in Domains}]
  /\ \A id \in UserIds : directory[id].id = id
  /\ jar = NoPair
  /\ resp = [kind |-> "none"]

\* POST /login: directory lookup by email and is_active, bcrypt.compare,
\* generateTokens, setAuthCookies
Login(id, passwordOk) ==
  LET user == ActiveUser(directory, id)
  IN  /\ IF user # Null /\ passwordOk
           THEN LET tokens == generateTokens(user, now)
                    set == setAuthCookies(tokens.accessToken,
                                          tokens.refreshToken)
                IN  /\ jar' = StoreCookies(jar, set)
                    /\ resp' = [kind |-> "login", ok |-> TRUE, at |-> now,
                                identity |-> Identity(user),
                                setCookies |-> set,
                                audit |-> <<AuditEntry(user.id, "login")>>]
           ELSE /\ jar' = jar
                /\ resp' = [kind |-> "login", ok |-> FALSE, at |-> now,
                            identity |-> Null, setCookies |-> NoPair,
                            audit |-> NoAudit]
      /\ UNCHANGED <<now, directory>>
      /\ UNCHANGED ssVars /\ UNCHANGED poolVars /\ UNCHANGED extVars

\* GET /logout: an audit row when the access token verifies,
\* clearAuthCookies
Logout ==
  /\ jar # NoPair
  /\ jar' = NoPair
  /\ resp' = [kind |-> "logout",
              user |-> verifyToken(jar.accessToken, now),
              audit |->
                IF verifyToken(jar.accessToken, now) # Null
                  THEN <<AuditEntry(verifyToken(jar.accessToken, now).id,
                                    "logout")>>
                  ELSE NoAudit]
  /\ UNCHANGED <<now, directory>>
  /\ UNCHANGED ssVars /\ UNCHANGED poolVars /\ UNCHANGED extVars

\* a request to a route protected by requireAuth; the browser stores the
\* cookies the response sets.  No branch of the gateway reads the inbound
\* identity headers, so every request carries the spoofed set.
Request(target, cookies, h) ==
  LET req == [route |-> target.route, name |-> target.name,
              sub |-> target.sub, cookies |-> cookies, headers |-> h]
      out == Handle(req, now, directory)
  IN  /\ resp' = out
      /\ jar' = StoreCookies(jar, out.setCookies)
      /\ UNCHANGED <<now, directory>>
      /\ UNCHANGED ssVars /\ UNCHANGED poolVars /\ UNCHANGED extVars

\* the cookies of the last request are presented once more, whatever the
\* browser holds by now: tokens are not stored by the gateway, so a copy of a
\* cookie can be sent at any time
Replay ==
  /\ resp.kind = "request"
  /\ Request(Target(resp.req.route, resp.req.name, resp.req.sub),
             resp.req.cookies, resp.req.headers)

\* time passes
Tick ==
  /\ \E t \in Instants : t > now /\ now' = t
  /\ UNCHANGED <<directory, jar, resp>>
  /\ UNCHANGED ssVars /\ UNCHANGED poolVars /\ UNCHANGED extVars

\* an operator changes role, domain or is_active of a user
DirectoryUpdate(id, role, domain, active) ==
  /\ directory[id] # UserRow(id, role, domain, active)
  /\ directory' = [directory EXCEPT ![id] = UserRow(id, role, domain, active)]
  /\ UNCHANGED <<now, jar, resp>>
  /\ UNCHANGED ssVars /\ UNCHANGED poolVars /\ UNCHANGED extVars

\* no directory row was changed since the model started
NoChange == -1

\* an operator changes role, domain or is_active of a user, once; the time
\* of the change is kept
Downgrade(id, role, domain, active) ==
  /\ changedAt = NoChange
  /\ directory[id] # UserRow(id, role, domain, active)
  /\ directory' = [directory EXCEPT ![id] = UserRow(id, role, domain, active)]
  /\ changedAt' = now
  /\ UNCHANGED <<now, jar, resp>>
  /\ UNCHANGED <<bresp, aresp, vault, INTERNAL_API_KEY, flight>>
  /\ UNCHANGED ssVars /\ UNCHANGED poolVars

GwNext ==
  \/ \E id \in UserIds, ok \in BOOLEAN : Login(id, ok)
  \/ Logout
  \/ \E target \in ReqTargets, cookies \in Presentable :
       Request(target, cookies, SpoofedHeaders)
  \/ Replay
  \/ Tick
  \/ \E id \in UserIds, role \in Roles, domain \in Domains, active \in BOOLEAN :
       DirectoryUpdate(id, role, domain, active)

----------------------------------------------------------------------------
(* The session-cookie gateways: the session variant of the gateway          *)
(* (middleware/gateway-auth.js, second half) and the patcher login gateway  *)

Variants == {"gateway", "patcher"}

\* DROPLETS: engine, dev, and portal (not yet deployed: null -> 'localhost')
TRADELINES ==
  [security      |-> [host |-> "64.23.151.201",  adminPort |-> 3002],
   business      |-> [host |-> "64.23.151.201",  adminPort |-> 3003],
   facilities    |-> [host |-> "64.23.151.201",  adminPort |-> 3004],
   electrical    |-> [host |-> "64.23.151.201",  adminPort |-> 3005],
   logistics     |-> [host |-> "64.23.151.201",  adminPort |-> 3006],
   lowvoltage    |-> [host |-> "64.23.151.201",  adminPort |-> 3007],
   landscaping   |-> [host |-> "64.23.151.201",  adminPort |-> 3008],
   hvac          |-> [host |-> "64.23.151.201",  adminPort |-> 3009],
   plumbing      |-> [host |-> "64.23.151.201",  adminPort |-> 3010],
   custodial     |-> [host |-> "64.23.151.201",  adminPort |-> 3011],
   it            |-> [host |-> "64.23.151.201",  adminPort |-> 3012],
   environmental |-> [host |-> "64.23.151.201",  adminPort |-> 3013],
   painting      |-> [host |-> "64.23.151.201",  adminPort |-> 3014],
   dev           |-> [host |-> "161.35.229.220", adminPort |-> 3099],
   sources       |-> [host |-> "161.35.229.220", adminPort |-> 3098],
   portal        |-> [host |-> "161.35.229.220", adminPort |-> 3100],
   tech          |-> [host |-> "161.35.229.220", adminPort |-> 3101],
   app           |-> [host |-> "161.35.229.220", adminPort |-> 3102],
   keystone      |-> [host |-> "localhost",      adminPort |-> 4000]]
  @@ ("bidder-portal" :> [host |-> "localhost",  adminPort |-> 4001])

\* req.session.user as each login handler builds it
SessionUser(variant, user) ==
  IF variant = "gateway"
    THEN [id |-> user.id, email |-> user.email, name |-> user.name,
          company_id |-> user.company_id, domain |-> user.domain,
          role |-> user.role]
    ELSE [id |-> user.id, email |-> user.email, name |-> user.name,
          role |-> user.role]

\* requireAuth / requireAuthForProxy: req.session && req.session.user
sessionRequireAuth(user) == user # Null

\* requireAdmin of the session gateway: session user with domain 'engine'
sessionRequireAdmin(user) ==
  user # Null /\ Has(user, "domain") /\ user.domain = "engine"

\* onProxyReq of the patcher gateway: adds X-NextBid-User / X-NextBid-Role
PatcherHeadersSet(headers, user) ==
  IF user = Null THEN headers
  ELSE [h \in HeaderNames |->
     CASE h = "x-nextbid-user" -> FromGateway(user.email)
       [] h = "x-nextbid-role" -> FromGateway(user.role)
       [] OTHER                -> headers[h]]

\* createProxyMiddleware without onProxyReq: the inbound headers go out as
\* they came in
PassThrough(port, prefix, req, headers) ==
  [outcome |-> "proxy", body |-> "",
   forward |-> [sent |-> TRUE, port |-> port, prefix |-> prefix,
                sub |-> req.sub, headers |-> headers]]

Reject(outcome, body) ==
  [outcome |-> outcome, body |-> body, forward |-> NoForward]

\* the proxy routes of the session gateway
SessionGatewayRoute(req, user) ==
  CASE req.route = "/dashboard" ->
         IF sessionRequireAuth(user)
           THEN PassThrough(7500, "", req, req.headers)
           ELSE IF IsApiPath(req.sub) THEN Reject("401", "Unauthorized")
                                      ELSE Reject("redirect", "/login")
    [] req.route \in AdminRoutes ->
         IF sessionRequireAdmin(user)
           THEN PassThrough(7101, RewrittenPrefix(req.route), req, req.headers)
           ELSE Reject("403", "Forbidden - Admin access required")
    [] req.route = "/tradelines" ->
         IF ~ sessionRequireAuth(user)
           THEN (IF IsApiPath(req.sub) THEN Reject("401", "Unauthorized")
                                       ELSE Reject("redirect", "/login"))
           ELSE LET port == PortLookup(req.name)
                IN  IF port.kind = "undefined"
                      THEN Reject("404", "Unknown tradeline")
                      ELSE PassThrough(port.port, "", req, req.headers)
    [] OTHER -> Reject("404", "")

\* the /admin/{slug} proxies of the patcher gateway; a path that matches no
\* mount falls through to Express's 404
PatcherRoute(req, user) ==
  IF req.route = "/admin" /\ req.name \in DOMAIN TRADELINES
    THEN IF sessionRequireAuth(user)
           THEN PassThrough(TRADELINES[req.name].adminPort, "", req,
                            PatcherHeadersSet(req.headers, user))
           ELSE Reject("401", "Unauthorized - Please login at /")
    ELSE Reject("404", "")

SsInit ==
  /\ session = [v \in Variants |-> Null]
  /\ sresp = [kind |-> "none"]

\* POST /login of either session gateway
SessionLogin(variant, id, passwordOk) ==
  LET user == ActiveUser(directory, id)
  IN  /\ user # Null /\ passwordOk
      /\ session[variant] = Null
      /\ session' = [session EXCEPT ![variant] = SessionUser(variant, user)]
      /\ sresp' = [kind |-> "login", variant |-> variant]
      /\ UNCHANGED gwVars /\ UNCHANGED poolVars /\ UNCHANGED extVars

\* GET /logout: req.session.destroy()
SessionLogout(variant) ==
  /\ session[variant] # Null
  /\ session' = [session EXCEPT ![variant] = Null]
  /\ sresp' = [kind |-> "logout", variant |-> variant]
  /\ UNCHANGED gwVars /\ UNCHANGED poolVars /\ UNCHANGED extVars

\* onError of the patcher gateway's proxies: 502 with a page that shows the
\* tradeline's name and 'Target: ${targetUrl}'; the request is not sent again
patcherOnError(slug) ==
  [status |-> "502", body |-> "Tradeline Offline",
   host |-> TRADELINES[slug].host, attempts |-> 1]

\* createProxyMiddleware without onError: the library's default handler
\* answers 504 for a refused, reset or timed-out connection with a text that
\* names the request's own Host and URL
defaultOnError ==
  [status |-> "504", body |-> "Error occurred while trying to proxy",
   host |-> "", attempts |-> 1]

\* what the caller gets for a request a proxy took: the backend's own
\* response when the backend answered
ProxyAnswer(variant, req, reachable) ==
  IF reachable
    THEN [status |-> "proxy", body |-> "", host |-> "", attempts |-> 1]
  ELSE IF variant = "patcher" THEN patcherOnError(req.name)
  ELSE defaultOnError

\* a request to a proxy route of a session gateway; reachable says whether
\* the backend accepts the connection and answers in time
SessionRequest(variant, target, h, reachable) ==
  LET req == [route |-> target.route, name |-> target.name,
              sub |-> target.sub, headers |-> h]
      out == IF variant = "gateway"
               THEN SessionGatewayRoute(req, session[variant])
               ELSE PatcherRoute(req, session[variant])
      answer == IF out.forward.sent
                  THEN ProxyAnswer(variant, req, reachable)
                  ELSE [status |-> out.outcome, body |-> out.body,
                        host |-> "", attempts |-> 0]
  IN  /\ sresp' = [kind |-> "request", variant |-> variant, req |-> req,
                   user |-> session[variant],
                   outcome |-> answer.status, body |-> answer.body,
                   forward |-> out.forward,
                   reachable |-> reachable, host |-> answer.host,
                   attempts |-> answer.attempts]
      /\ UNCHANGED session
      /\ UNCHANGED gwVars /\ UNCHANGED poolVars /\ UNCHANGED extVars

SessionTargets ==
  {Target("/dashboard", "", "/"), Target("/dashboard", "", "/api/data"),
   Target("/patcher", "", "/"), Target("/dev-sync", "", "/"),
   Target("/tradelines", "security", "/"),
   Target("/tradelines", "nosuch", "/"),
   Target("/admin", "security", "/"), Target("/admin", "keystone", "/"),
   Target("/admin", "nosuch", "/")}

SsNext ==
  \/ \E v \in Variants, id \in UserIds, ok \in BOOLEAN : SessionLogin(v, id, ok)
  \/ \E v \in Variants : SessionLogout(v)
  \/ \E v \in Variants, target \in SessionTargets, h \in InboundHeaders,
        reachable \in BOOLEAN :
       SessionRequest(v, target, h, reachable)

----------------------------------------------------------------------------
(* The shared credential pool (database/auth-schema.sql)                    *)

CredIds == {"c1", "c2", "c3"}
Sources == {"sam_gov", "bidnet"}
Workers == {"w1", "w2"}

FailureThreshold == 5

\* SQL NULL of the nullable columns last_used (a timestamp; NULLS FIRST puts
\* it before every time) and last_error (a text)
NullTime == -1
NullText == "NULL"

\* a row of nextbid_company_credentials.  allSet says that the nullable
\* columns the functions never write (username, password_encrypted,
\* api_key_encrypted, extra_data) all hold a value.
\* failures > 0 is the row mark_credential_failure leaves behind.
CredRow(company, source, configured, allSet, lastUsed, failures) ==
  [company_id |-> company, source |-> source, is_configured |-> configured,
   allSet |-> allSet, status |-> "pending", last_used |-> lastUsed,
   last_error |-> IF failures > 0 THEN "login failed" ELSE NullText,
   use_count |-> 0, success_count |-> 0, failure_count |-> failures]

EligibleAnyStatus(rows, comps, c, source) ==
  /\ rows[c].source = source
  /\ rows[c].is_configured
  /\ comps[rows[c].company_id]

\* the WHERE clause of get_next_credential and of v_credential_pool
Eligible(rows, comps, c, source) ==
  /\ rows[c].source = source
  /\ rows[c].is_configured
  /\ rows[c].status \in {"valid", "pending"}
  /\ comps[rows[c].company_id]

\* ORDER BY last_used NULLS FIRST, use_count ASC: row a sorts before row b
SortsBefore(a, b) ==
  \/ a.last_used < b.last_used
  \/ a.last_used = b.last_used /\ a.use_count < b.use_count

AnyRow(rows, comps, source) == CredIds

\* the rows LIMIT 1 may return: the eligible rows no other eligible row sorts
\* before (SQL leaves the order of ties open)
FirstCandidates(rows, comps, source) ==
  {c \in CredIds :
     /\ Eligible(rows, comps, c, source)
     /\ \A d \in CredIds :
          Eligible(rows, comps, d, source) => ~ SortsBefore(rows[d], rows[c])}

\* IF v_cred IS NOT NULL: for a record, IS NOT NULL holds only when every
\* column of the record is non-null
RecordIsNotNull(row) ==
  /\ row.allSet
  /\ row.last_used # NullTime
  /\ row.last_error # NullText

\* cands: the rows the SELECT of the call could return
Idle == [pc |-> "idle", source |-> "", v_cred |-> "none", seen |-> 0,
         at |-> 0, result |-> "none", raced |-> FALSE, cands |-> {}]

SumOf(rows, field) ==
  rows["c1"][field] + rows["c2"][field] + rows["c3"][field]

\* the tables the model starts from.  c1 is a row without a report yet: as
\* POST /profile/credentials leaves it (never used, extra_data NULL) or with
\* its nullable columns filled in by an operator.  c2 and c3 are complete
\* rows that were used at time 0 and have one failure recorded; c3 may
\* belong to another source or to an inactive company.
SeedTables ==
  {[c1 |-> CredRow("co1", "sam_gov", TRUE, a1, u1, 0),
    c2 |-> CredRow("co2", "sam_gov", TRUE, TRUE, 0, 1),
    c3 |-> CredRow("co3", src3, TRUE, TRUE, 0, 1)] :
     a1 \in BOOLEAN, u1 \in {NullTime, 0}, src3 \in Sources}

PoolInit ==
  /\ creds \in SeedTables
  /\ companies \in {[co1 |-> TRUE, co2 |-> TRUE, co3 |-> a] : a \in BOOLEAN}
  /\ clock = 0
  /\ borrower = [w \in Workers |-> Idle]
  /\ streak = [c \in CredIds |-> creds[c].failure_count]

\* get_next_credential, first statement: SELECT cc.* INTO v_cred ... LIMIT 1
\* and the IF; with no row, or a row with a NULL column, the function
\* returns no row and updates nothing
BorrowSelect(w, source) ==
  LET first == FirstCandidates(creds, companies, source)
  IN  /\ borrower[w].pc # "selected"
      /\ clock < MaxClock
      /\ clock' = clock + 1
      /\ IF first = {}
           THEN borrower' = [borrower EXCEPT ![w] =
                  [Idle EXCEPT !.pc = "done", !.source = source,
                               !.at = clock + 1]]
           ELSE \E c \in first :
                  borrower' = [borrower EXCEPT ![w] =
                    IF RecordIsNotNull(creds[c])
                      THEN [pc |-> "selected", source |-> source,
                            v_cred |-> c, seen |-> creds[c].use_count,
                            at |-> clock + 1, result |-> "none",
                            raced |-> FALSE, cands |-> first]
                      ELSE [Idle EXCEPT !.pc = "done", !.source = source,
                                        !.at = clock + 1, !.cands = first]]
      /\ UNCHANGED <<creds, companies, streak>>
      /\ UNCHANGED gwVars /\ UNCHANGED ssVars /\ UNCHANGED extVars

BorrowUpdateFromSeen(w) ==
  LET c == borrower[w].v_cred
  IN  /\ borrower[w].pc = "selected"
      /\ creds' = [creds EXCEPT ![c].last_used = borrower[w].at,
                                ![c].use_count = borrower[w].seen + 1]
      /\ borrower' = [borrower EXCEPT ![w].pc = "done", ![w].result = c]
      /\ UNCHANGED <<companies, clock, streak>>
      /\ UNCHANGED gwVars /\ UNCHANGED ssVars /\ UNCHANGED extVars

\* get_next_credential, second statement: UPDATE ... SET last_used = NOW(),
\* use_count = use_count + 1 WHERE id = v_cred.id, then RETURN QUERY.
\* raced records that another caller marked the same row used since this
\* caller selected it while an eligible row now sorts before it.
BorrowUpdate(w) ==
  LET c == borrower[w].v_cred
  IN  /\ borrower[w].pc = "selected"
      /\ creds' = [creds EXCEPT ![c].last_used = borrower[w].at,
                                ![c].use_count = @ + 1]
      /\ borrower' = [borrower EXCEPT ![w].pc = "done", ![w].result = c,
           ![w].raced =
              /\ creds[c].use_count # borrower[w].seen
              /\ \E d \in CredIds \ {c} :
                   /\ Eligible(creds, companies, d, borrower[w].source)
                   /\ SortsBefore(creds[d], creds[c])]
      /\ UNCHANGED <<companies, clock, streak>>
      /\ UNCHANGED gwVars /\ UNCHANGED ssVars /\ UNCHANGED extVars

SuccessResetsFailures(row) ==
  [row EXCEPT !.status = "valid", !.success_count = @ + 1,
              !.last_error = NullText, !.failure_count = 0]

\* the UPDATE of mark_credential_success, on the row it finds
mark_credential_success(row) ==
  [row EXCEPT !.status = "valid",
              !.success_count = @ + 1,
              !.last_error = NullText]

\* mark_credential_success(p_credential_id)
ReportSuccess(c) ==
  /\ SumOf(creds, "success_count") < MaxSuccesses
  /\ creds' = [creds EXCEPT ![c] = mark_credential_success(creds[c])]
  /\ streak' = [streak EXCEPT ![c] = 0]
  /\ UNCHANGED <<companies, clock, borrower>>
  /\ UNCHANGED gwVars /\ UNCHANGED ssVars /\ UNCHANGED extVars

FailureKeepsValid(row, p_error) ==
  [row EXCEPT !.failure_count = @ + 1, !.last_error = p_error,
              !.status = IF row.failure_count >= FailureThreshold
                           THEN "invalid" ELSE row.status]

\* the UPDATE of mark_credential_failure, on the row it finds: the CASE
\* reads failure_count of the row as it was before this UPDATE
mark_credential_failure(row, p_error) ==
  [row EXCEPT
     !.failure_count = @ + 1,
     !.last_error = p_error,
     !.status = IF row.failure_count >= FailureThreshold
                  THEN "invalid" ELSE "pending"]

\* mark_credential_failure(p_credential_id, p_error)
ReportFailure(c, error) ==
  /\ SumOf(creds, "failure_count") < MaxFailures
  /\ creds' = [creds EXCEPT ![c] = mark_credential_failure(creds[c], error)]
  /\ streak' = [streak EXCEPT ![c] = @ + 1]
  /\ UNCHANGED <<companies, clock, borrower>>
  /\ UNCHANGED gwVars /\ UNCHANGED ssVars /\ UNCHANGED extVars

\* one worker borrowing and reporting
PoolNext ==
  \/ \E source \in Sources : BorrowSelect("w1", source)
  \/ BorrowUpdate("w1")
  \/ \E c \in CredIds : ReportSuccess(c)
  \/ \E c \in CredIds : ReportFailure(c, "login failed")

\* two workers borrowing concurrently
RaceNext ==
  \/ \E w \in Workers, source \in Sources : BorrowSelect(w, source)
  \/ \E w \in Workers : BorrowUpdate(w)

----------------------------------------------------------------------------
(* A backend service behind the gateway (middleware/gateway-auth.js, first  *)
(* half): it trusts the identity headers of a request that carries the      *)
(* X-Gateway-Auth marker                                                    *)

\* req.headers[name] of a header that was not sent
Undefined == "undefined"

\* req.headers[name]
HeaderValue(headers, name) ==
  IF headers[name].src = "absent" THEN Undefined ELSE headers[name].val

AnyMarker(headers) == headers["x-gateway-auth"].src # "absent"

\* req.headers['x-gateway-auth'] !== 'true' -> return null
HasMarker(headers) == HeaderValue(headers, "x-gateway-auth") = "true"

\* getUser(req)
getUser(headers) ==
  IF ~ HasMarker(headers)
    THEN Null
    ELSE [id         |-> HeaderValue(headers, "x-user-id"),
          email      |-> HeaderValue(headers, "x-user-email"),
          name       |-> HeaderValue(headers, "x-user-name"),
          role       |-> HeaderValue(headers, "x-user-role"),
          domain     |-> HeaderValue(headers, "x-user-domain"),
          company_id |-> HeaderValue(headers, "x-company-id")]

\* the end of a backend middleware: the status it answers with, or next()
\* with req.gatewayUser
Refuse(status, error) ==
  [outcome |-> status, error |-> error, gatewayUser |-> Null]
Proceed(user) == [outcome |-> "next", error |-> "", gatewayUser |-> user]

\* requireGatewayAuth(req, res, next)
requireGatewayAuth(user) ==
  IF user = Null THEN Refuse("401", "Unauthorized") ELSE Proceed(user)

BothRequired(user) ==
  IF user = Null
    THEN Refuse("401", "Unauthorized")
    ELSE IF user.role # "superadmin" \/ user.domain # "engine"
      THEN Refuse("403", "Admin access required")
      ELSE Proceed(user)

\* requireAdmin(req, res, next) of the backend middleware
backendRequireAdmin(user) ==
  IF user = Null
    THEN Refuse("401", "Unauthorized")
    ELSE IF user.role # "superadmin" /\ user.domain # "engine"
      THEN Refuse("403", "Admin access required")
      ELSE Proceed(user)

\* attachUser(req, res, next)
attachUser(user) == Proceed(user)

\* what a sender can put in one header
Sent(values) == {Absent} \cup {FromCaller(v) : v \in values}

\* the headers of a request that reaches a backend
BackendHeaders(marker, id, role, domain) ==
  [h \in HeaderNames |->
     CASE h = "x-gateway-auth" -> marker
       [] h = "x-user-id"      -> id
       [] h = "x-user-role"    -> role
       [] h = "x-user-domain"  -> domain
       [] OTHER                -> Absent]

\* a request reaches a backend route that is protected by one of the
\* middlewares
BackendRequest(mw, headers) ==
  /\ bresp' = [kind |-> "request", mw |-> mw, headers |-> headers,
               out |-> CASE mw = "requireGatewayAuth" ->
                              requireGatewayAuth(getUser(headers))
                         [] mw = "requireAdmin" ->
                              backendRequireAdmin(getUser(headers))
                         [] OTHER -> attachUser(getUser(headers))]
  /\ UNCHANGED <<aresp, vault, INTERNAL_API_KEY, flight, changedAt>>
  /\ UNCHANGED gwVars /\ UNCHANGED ssVars /\ UNCHANGED poolVars

\* the gateway proxies a request of the identity to a backend route that is
\* protected by the backend's requireAdmin: the gateway's own requireAdmin
\* decision, the headers onProxyReq sets and the backend's decision on them
ProxiedToBackend(user, inbound) ==
  /\ bresp' = [kind |-> "proxied", user |-> user,
               gateway |-> requireAdmin(user),
               headers |-> InjectedHeaders(inbound, user),
               out |-> backendRequireAdmin(
                         getUser(InjectedHeaders(inbound, user)))]
  /\ UNCHANGED <<aresp, vault, INTERNAL_API_KEY, flight, changedAt>>
  /\ UNCHANGED gwVars /\ UNCHANGED ssVars /\ UNCHANGED poolVars

BackendNext ==
  \/ \E mw \in {"requireGatewayAuth", "requireAdmin", "attachUser"},
        marker \in Sent({"true", "TRUE", "false", "1", ""}),
        id \in Sent({"u1"}),
        role \in Sent({"user", "superadmin"}),
        domain \in Sent({"engine", "portal"}) :
       BackendRequest(mw, BackendHeaders(marker, id, role, domain))
  \* req.user with id and email and any of the other properties present
  \/ \E present \in SUBSET {"name", "role", "domain", "company_id"},
        role \in {"", "user", "admin", "superadmin"},
        domain \in {"", "engine", "portal"},
        inbound \in InboundHeaders :
       ProxiedToBackend(
         [k \in {"id", "email"} \cup present |->
            [id |-> "u1", email |-> "a@x.io", name |-> "Ann", role |-> role,
             domain |-> domain, company_id |-> "co1"][k]],
         inbound)

----------------------------------------------------------------------------
(* The internal service API and the profile form that fills the table it    *)
(* reads (server.js)                                                        *)

ApiCompanies == {"co1", "co2"}

\* a JavaScript value that an if () takes as true
Truthy(v) == v \notin {Undefined, ""}

\* the row an upsert starts from when the pair has no row yet
NewRow ==
  [username |-> NullText, password_encrypted |-> NullText,
   api_key_encrypted |-> NullText, is_configured |-> TRUE]

\* credentialData of POST /profile/credentials, laid over the row it
\* upserts: only the columns the form filled in are written
credentialData(row, username, password, api_key) ==
  [username          |-> IF Truthy(username) /\ Truthy(password)
                           THEN username ELSE row.username,
   password_encrypted |-> IF Truthy(username) /\ Truthy(password)
                           THEN password ELSE row.password_encrypted,
   api_key_encrypted |-> IF Truthy(api_key)
                           THEN api_key ELSE row.api_key_encrypted,
   is_configured     |-> TRUE]

\* upsert(credentialData, { onConflict: 'company_id,source' })
upsert(table, pair, username, password, api_key) ==
  [q \in DOMAIN table \cup {pair} |->
     IF q = pair
       THEN credentialData(IF pair \in DOMAIN table THEN table[pair]
                           ELSE NewRow,
                           username, password, api_key)
       ELSE table[q]]

\* POST /profile/credentials of a user of the company, after requireAuth
SaveCredentials(company, source, username, password, api_key) ==
  /\ vault' = upsert(vault, <<company, source>>, username, password, api_key)
  /\ aresp' = [kind |-> "save", companyId |-> company, source |-> source,
               status |-> "200"]
  /\ UNCHANGED <<bresp, INTERNAL_API_KEY, flight, changedAt>>
  /\ UNCHANGED gwVars /\ UNCHANGED ssVars /\ UNCHANGED poolVars

AnyOfCompany(table, companyId, source) ==
  {q \in DOMAIN table : q[1] = companyId}

\* .eq('company_id', companyId).eq('source', source): the pairs of the rows
\* the query matches
Matching(table, companyId, source) ==
  {q \in DOMAIN table : q[1] = companyId /\ q[2] = source}

\* the JSON body of an answer
ApiError(status, error) ==
  [status |-> status, error |-> error, username |-> "", password |-> "",
   api_key |-> ""]
ApiCredentials(row) ==
  [status |-> "200", error |-> "", username |-> row.username,
   password |-> row.password_encrypted, api_key |-> row.api_key_encrypted]

\* the handler of GET /api/credentials/:companyId/:source
credentialsHandler(table, key, companyId, source, apiKey) ==
  IF apiKey # key
    THEN ApiError("401", "Invalid API key")
    ELSE IF Matching(table, companyId, source) = {}
      THEN ApiError("404", "Credentials not found")
      ELSE ApiCredentials(
             table[CHOOSE q \in Matching(table, companyId, source) : TRUE])

\* GET /api/credentials/:companyId/:source with the x-api-key header apiKey
GetCredentials(companyId, source, apiKey) ==
  /\ aresp' = [kind |-> "credentials", companyId |-> companyId,
               source |-> source, apiKey |-> apiKey,
               answer |-> credentialsHandler(vault, INTERNAL_API_KEY,
                                             companyId, source, apiKey)]
  /\ UNCHANGED <<bresp, vault, INTERNAL_API_KEY, flight, changedAt>>
  /\ UNCHANGED gwVars /\ UNCHANGED ssVars /\ UNCHANGED poolVars

\* rows of nextbid_company_tradelines
SubscriptionRows ==
  {[company_id |-> "co1", tradeline |-> "security", is_active |-> TRUE],
   [company_id |-> "co2", tradeline |-> "security", is_active |-> FALSE],
   [company_id |-> "co2", tradeline |-> "hvac", is_active |-> TRUE]}

\* the handler of GET /api/tradeline/:tradeline/companies
companiesHandler(key, tradeline, apiKey) ==
  IF apiKey # key
    THEN [status |-> "401", error |-> "Invalid API key", companies |-> {}]
    ELSE [status |-> "200", error |-> "",
          companies |-> {s.company_id : s \in
                           {x \in SubscriptionRows :
                              x.tradeline = tradeline /\ x.is_active}}]

\* GET /api/tradeline/:tradeline/companies with the x-api-key header apiKey
GetCompanies(tradeline, apiKey) ==
  /\ aresp' = [kind |-> "companies", tradeline |-> tradeline,
               apiKey |-> apiKey,
               answer |-> companiesHandler(INTERNAL_API_KEY, tradeline,
                                           apiKey)]
  /\ UNCHANGED <<bresp, vault, INTERNAL_API_KEY, flight, changedAt>>
  /\ UNCHANGED gwVars /\ UNCHANGED ssVars /\ UNCHANGED poolVars

ApiNext ==
  \/ \E tradeline \in {"security", "hvac", "nosuch"},
        apiKey \in {Undefined, "s3cret", "guess"} :
       GetCompanies(tradeline, apiKey)
  \/ \E company \in ApiCompanies, source \in Sources,
        username \in {Undefined, "alice", "bob"},
        password \in {Undefined, "pw1"},
        api_key \in {Undefined, "k1"} :
       SaveCredentials(company, source, username, password, api_key)
  \/ \E companyId \in ApiCompanies \cup {"co9"}, source \in Sources,
        apiKey \in {Undefined, "s3cret", "guess"} :
       GetCredentials(companyId, source, apiKey)

----------------------------------------------------------------------------
(* requireAuth as the event loop runs it (server.js): the code up to the    *)
(* await of the directory query is one turn, the code after it another, and *)
(* turns of different requests interleave                                   *)

Flights == {"r1", "r2"}

NoFlight == [pc |-> "idle"]

\* the calls a turn makes that the client or a backend can observe, in the
\* order of the code
CookieEvents(refreshed) ==
  IF refreshed THEN <<"setAuthCookies">> ELSE << >>
RespondThenNext == <<"respond", "next">>

\* return res.status(401).json(...) / return res.redirect('/login')
AnswerEvents == <<"respond">>
NextEvents(h) ==
  <<"next">> \o (IF h.forward.sent THEN <<"proxyReq">> ELSE <<"respond">>)

NextBeforeCookies(refreshed, decision) == decision \o CookieEvents(refreshed)

\* the refresh branch sets the cookies, then requireAuth answers or calls
\* next()
TurnEvents(refreshed, decision) == CookieEvents(refreshed) \o decision

\* if (!user) { 401 / redirect } else { req.user = user; next() }: the
\* handlers behind next() run inside the call
Decided(req, user, h, refreshed, setCookies, query, log) ==
  [pc |-> "done", req |-> req, user |-> user, refreshed |-> refreshed,
   setCookies |-> setCookies, query |-> query,
   outcome |-> IF user = Null
                 THEN (IF IsApiPath(ReqPath(req)) THEN "401" ELSE "redirect")
                 ELSE h.outcome,
   forward |-> IF user = Null THEN NoForward ELSE h.forward,
   log |-> log \o TurnEvents(refreshed,
                             IF user = Null THEN AnswerEvents
                                            ELSE NextEvents(h))]

\* the handlers behind next(); nothing runs behind it without a user
Behind(req, user) ==
  IF user = Null
    THEN [outcome |-> "none", body |-> "", forward |-> NoForward]
    ELSE RouteHandler(req, user)

\* the turn that ends at the await: the query is on its way
Awaiting(req, id) ==
  [pc |-> "await", req |-> req, id |-> id, log |-> << >>]

\* first turn of requireAuth: verify the access token; with none and a
\* refresh token of type refresh, query the directory and wait
FirstTurn(req, t) ==
  IF /\ TryRefresh(verifyToken(req.cookies.accessToken, t),
                   req.cookies.refreshToken)
     /\ IsRefreshPayload(verifyToken(req.cookies.refreshToken, t))
    THEN Awaiting(req, verifyToken(req.cookies.refreshToken, t).id)
    ELSE Decided(req, verifyToken(req.cookies.accessToken, t),
                 Behind(req, verifyToken(req.cookies.accessToken, t)),
                 FALSE, NoPair, "none", << >>)

\* the user of the turn after the await: verifyToken(tokens.accessToken)
\* when the query returned a row (if (dbUser)), null otherwise
RefreshedUser(dbUser, t) ==
  IF dbUser = Null THEN Null
  ELSE verifyToken(generateTokens(dbUser, t).accessToken, t)

\* second turn of requireAuth: the query has returned { data: dbUser }
SecondTurn(req, dbUser, query, t) ==
  Decided(req, RefreshedUser(dbUser, t),
          Behind(req, RefreshedUser(dbUser, t)),
          dbUser # Null,
          IF dbUser # Null THEN ReissueCookies(generateTokens(dbUser, t))
                           ELSE NoPair,
          query, << >>)

\* a request arrives and runs to its first await or to its end
Arrive(r, target, cookies) ==
  /\ flight[r].pc = "idle"
  /\ flight' = [flight EXCEPT ![r] =
       FirstTurn([route |-> target.route, name |-> target.name,
                  sub |-> target.sub, cookies |-> cookies,
                  headers |-> NoHeaders], now)]
  /\ UNCHANGED <<bresp, aresp, vault, INTERNAL_API_KEY, changedAt>>
  /\ UNCHANGED gwVars /\ UNCHANGED ssVars /\ UNCHANGED poolVars

QueryReturnsOnce(r, failed) ==
  /\ flight[r].pc = "await"
  /\ flight' = [flight EXCEPT ![r] =
       SecondTurn(flight[r].req,
                  IF \/ failed
                     \/ \E o \in Flights \ {r} :
                          /\ flight[o].pc = "done"
                          /\ flight[o].refreshed
                          /\ flight[o].req.cookies.refreshToken
                               = flight[r].req.cookies.refreshToken
                    THEN Null
                    ELSE ActiveUser(directory, flight[r].id),
                  IF failed THEN "failed" ELSE "returned",
                  now)]
  /\ UNCHANGED <<bresp, aresp, vault, INTERNAL_API_KEY, changedAt>>
  /\ UNCHANGED gwVars /\ UNCHANGED ssVars /\ UNCHANGED poolVars

\* the directory query of a waiting request returns: the active row of the
\* id, or no row (also when the query failed: { data: null, error })
QueryReturns(r, failed) ==
  /\ flight[r].pc = "await"
  /\ flight' = [flight EXCEPT ![r] =
       SecondTurn(flight[r].req,
                  IF failed THEN Null
                  ELSE ActiveUser(directory, flight[r].id),
                  IF failed THEN "failed" ELSE "returned",
                  now)]
  /\ UNCHANGED <<bresp, aresp, vault, INTERNAL_API_KEY, changedAt>>
  /\ UNCHANGED gwVars /\ UNCHANGED ssVars /\ UNCHANGED poolVars

\* the tokens a login at time 0 issued to the user of the directory
IssuedAtZero == generateTokens(directory["u1"], 0)

\* two requests, each with some of the cookies of that login, arrive and
\* their directory queries return in any order
FlightNext ==
  \/ \E r \in Flights,
        target \in
          {Target("/dashboard", "", "/"), Target("/dashboard", "", "/api/data"),
           Target("/patcher", "", "/"), Target("/tradelines", "security", "/"),
           Target("/tradelines", "nosuch", "/"),
           Target("/tradelines", "constructor", "/")},
        cookies \in
          {Cookies(IssuedAtZero.accessToken, IssuedAtZero.refreshToken),
           Cookies(NoToken, IssuedAtZero.refreshToken),
           Cookies(IssuedAtZero.accessToken, NoToken),
           Cookies(NoToken, NoToken)} :
       Arrive(r, target, cookies)
  \/ \E r \in Flights, failed \in BOOLEAN : QueryReturns(r, failed)

\* the requests of the specification with a directory change: a page every
\* user may see, an admin route and a proxied route
StaleTargets ==
  {Target("/dashboard", "", "/"), Target("/patcher", "", "/"),
   Target("/opportunities", "", "/")}

----------------------------------------------------------------------------
(* Self-registration (server.js, POST /register)                            *)

\* the id the database gives the user a registration creates, and the id of
\* the company created with it
NewUserId == "u2"
NewCompanyId == "co9"

\* email.toLowerCase()
toLowerCase(email) == IF email = "B@X.IO" THEN "b@x.io" ELSE email

RowFromBody(body) ==
  [id |-> NewUserId, email |-> toLowerCase(body.email), name |-> body.name,
   company_id |-> NewCompanyId,
   domain |-> IF body.domain # Undefined THEN body.domain ELSE "portal",
   role |-> IF body.role # Undefined THEN body.role ELSE "owner",
   products |-> {}, is_active |-> TRUE]

\* the row the insert into nextbid_users creates: email, name and
\* company_id from the request, domain and role fixed
RegisteredRow(body) ==
  [id |-> NewUserId, email |-> toLowerCase(body.email), name |-> body.name,
   company_id |-> NewCompanyId, domain |-> "portal", role |-> "owner",
   products |-> {}, is_active |-> TRUE]

\* POST /register with req.body = body (the form fields and whatever else
\* the client adds, Undefined for a field that was not sent): refuse a
\* taken email; otherwise create the company and
\* the user, sign a token pair for the user and set the cookies
Register(body) ==
  /\ NewUserId \notin DOMAIN directory
  /\ IF \E id \in DOMAIN directory :
          directory[id].email = toLowerCase(body.email)
       THEN /\ resp' = [kind |-> "register", ok |-> FALSE, body |-> body,
                        setCookies |-> NoPair]
            /\ UNCHANGED <<directory, jar, companies>>
       ELSE /\ directory' = [id \in DOMAIN directory \cup {NewUserId} |->
                               IF id = NewUserId THEN RegisteredRow(body)
                               ELSE directory[id]]
            /\ companies' = [co \in DOMAIN companies \cup {NewCompanyId} |->
                               IF co = NewCompanyId THEN TRUE
                               ELSE companies[co]]
            /\ jar' = StoreCookies(jar,
                        ReissueCookies(generateTokens(RegisteredRow(body),
                                                      now)))
            /\ resp' = [kind |-> "register", ok |-> TRUE, body |-> body,
                        setCookies |->
                          ReissueCookies(generateTokens(RegisteredRow(body),
                                                        now))]
  /\ UNCHANGED now
  /\ UNCHANGED <<creds, clock, borrower, streak>>
  /\ UNCHANGED ssVars /\ UNCHANGED extVars

RegisterNext ==
  \/ \E email \in {"a@x.io", "b@x.io", "B@X.IO"}, name \in {"Bob", "Eve"},
        role \in {Undefined, "superadmin", "owner"},
        domain \in {Undefined, "engine"} :
       Register([email |-> email, name |-> name, role |-> role,
                 domain |-> domain])
  \/ \E target \in StaleTargets, cookies \in Presentable :
       Request(target, cookies, NoHeaders)
  \/ Tick

----------------------------------------------------------------------------
(* Specifications *)

\* the part of the state a specification does not touch stays at one value
GwQuiet ==
  /\ now = 0
  /\ directory = [id \in UserIds |-> UserRow(id, "user", "portal", TRUE)]
  /\ jar = NoPair
  /\ resp = [kind |-> "none"]

PoolQuiet ==
  /\ creds = [c1 |-> CredRow("co1", "sam_gov", TRUE, TRUE, 0, 0),
              c2 |-> CredRow("co2", "sam_gov", TRUE, TRUE, 0, 0),
              c3 |-> CredRow("co3", "sam_gov", TRUE, TRUE, 0, 0)]
  /\ companies = [co \in {"co1", "co2", "co3"} |-> TRUE]
  /\ clock = 0
  /\ borrower = [w \in Workers |-> Idle]
  /\ streak = [c \in CredIds |-> 0]

ExtQuiet ==
  /\ bresp = [kind |-> "none"]
  /\ aresp = [kind |-> "none"]
  /\ vault = << >>
  /\ INTERNAL_API_KEY = "s3cret"
  /\ flight = [r \in Flights |-> NoFlight]
  /\ changedAt = NoChange

\* the JWT gateway
Init == GwInit /\ SsInit /\ PoolQuiet /\ ExtQuiet
Next == GwNext
Spec == Init /\ [][Next]_vars

\* the session gateways
SpecSession == Init /\ [][SsNext]_vars

\* the credential pool, one worker
InitPool == GwQuiet /\ SsInit /\ PoolInit /\ ExtQuiet
SpecPool == InitPool /\ [][PoolNext]_vars

\* the credential pool, two concurrent workers
SpecRace == InitPool /\ [][RaceNext]_vars

\* a backend service
InitBackend == GwQuiet /\ SsInit /\ PoolQuiet /\ ExtQuiet
SpecBackend == InitBackend /\ [][BackendNext]_vars

\* the internal service API: the table starts empty, the secret is set or
\* missing from the environment
InitApi ==
  /\ GwQuiet /\ SsInit /\ PoolQuiet
  /\ bresp = [kind |-> "none"]
  /\ aresp = [kind |-> "none"]
  /\ vault = << >>
  /\ INTERNAL_API_KEY \in {Undefined, "s3cret"}
  /\ flight = [r \in Flights |-> NoFlight]
  /\ changedAt = NoChange
SpecApi == InitApi /\ [][ApiNext]_vars

\* requests in progress: the user logged in at time 0; the requests arrive
\* while the access token is current, after it expired, or after both
\* tokens expired; the user may have been deactivated since the login
InitFlight ==
  /\ now \in {0, JWT_EXPIRES_IN, REFRESH_EXPIRES_IN}
  /\ directory \in [UserIds -> {UserRow(id, r, d, a) :
                                  id \in UserIds, r \in Roles, d \in Domains,
                                  a \in BOOLEAN}]
  /\ jar = NoPair
  /\ resp = [kind |-> "none"]
  /\ SsInit /\ PoolQuiet /\ ExtQuiet
SpecFlight == InitFlight /\ [][FlightNext]_vars

\* the directory query of a waiting request settles: the client resolves the
\* awaited promise with a row, with no row or with an error, and the event
\* loop then runs the rest of requireAuth
SpecFlightFair ==
  /\ SpecFlight
  /\ \A r \in Flights :
       WF_vars(\E failed \in BOOLEAN : QueryReturns(r, failed))

\* the JWT gateway with one change of the user's directory row
StaleNext ==
  \/ \E id \in UserIds, ok \in BOOLEAN : Login(id, ok)
  \/ Logout
  \/ \E target \in StaleTargets, cookies \in Presentable :
       Request(target, cookies, NoHeaders)
  \/ Replay
  \/ Tick
  \/ \E id \in UserIds, role \in Roles, domain \in Domains,
        active \in BOOLEAN : Downgrade(id, role, domain, active)
SpecStale == Init /\ [][StaleNext]_vars

\* the JWT gateway with self-registration
SpecRegister == Init /\ [][RegisterNext]_vars

----------------------------------------------------------------------------
(* Properties *)

\* the tokens generateTokens can have issued by an instant of the model
IssuableAccessTokens ==
  {generateTokens(UserRow(id, r, d, TRUE), t).accessToken :
     id \in UserIds, r \in Roles, d \in Domains, t \in Instants}
IssuableRefreshTokens ==
  {generateTokens(UserRow(id, r, d, TRUE), t).refreshToken :
     id \in UserIds, r \in Roles, d \in Domains, t \in Instants}

IsRequest == resp.kind = "request"

\* a step of the JWT gateway that handles a request: Login and Logout leave
\* another kind of response, Tick and DirectoryUpdate change now or directory
RequestStep ==
  /\ resp'.kind = "request"
  /\ resp'.at = now
  /\ UNCHANGED <<now, directory>>
IsSessionRequest == sresp.kind = "request"

\* C1: a token of type refresh presented in the access-token position is
\* rejected: requireAuth never derives the request's identity from it.
C1_RefreshTokenRejectedAsAccess ==
  (IsRequest /\ resp.req.cookies.accessToken \in IssuableRefreshTokens)
    => (resp.via # "access" /\ (resp.via = "none" => ~ resp.next))

\* C2: an access token presented in the refresh-token position, with no
\* verifying access token, never triggers a refresh: no directory read, no
\* new pair, no cookies, and the request is rejected.
C2_AccessTokenNeverRefreshes ==
  (/\ IsRequest
   /\ resp.req.cookies.refreshToken \in IssuableAccessTokens
   /\ verifyToken(resp.req.cookies.accessToken, resp.at) = Null)
    => /\ resp.setCookies = NoPair
       /\ resp.lookups = 0
       /\ resp.user = Null
       /\ ~ resp.next
       /\ resp.outcome \in {"401", "redirect"}
       /\ resp.forward = NoForward

\* a still valid access token was sent as the only cookie, in the refresh
\* position, and the request was redirected to /login
C2_Witness ==
  /\ IsRequest
  /\ resp.req.cookies.refreshToken \in IssuableAccessTokens
  /\ resp.at < resp.req.cookies.refreshToken.claims.exp
  /\ resp.req.cookies.accessToken = NoToken
  /\ resp.outcome = "redirect"

\* C3: a request to /tradelines/<slug> for a slug that is not in the route
\* table gets 404 with the same body whoever the caller is.
C3_UnknownSlugAlways404 ==
  (/\ IsRequest
   /\ resp.req.route = "/tradelines"
   /\ resp.req.name \notin DOMAIN tradelinePorts)
    => (resp.outcome = "404" /\ resp.body = "Unknown tradeline")

\* the two headers of a forwarded request a caller must not control
NoCallerValue(forward) ==
  forward.sent =>
    \A h \in {"x-gateway-auth", "x-user-role"} :
      forward.headers[h].src # "caller"

\* C4: in every request a proxy forwards, X-Gateway-Auth and X-User-Role are
\* written by the gateway or absent, never the caller's value.
C4_CallerHeadersNeverForwarded ==
  /\ IsRequest => NoCallerValue(resp.forward)
  /\ IsSessionRequest => NoCallerValue(sresp.forward)

\* C5: after 5 consecutive reportFailure calls on a credential that started
\* at failure_count 0 its status is invalid and no borrow can select it.
C5_FiveFailuresInvalidate ==
  \A c \in CredIds :
    (streak[c] >= FailureThreshold /\ creds[c].failure_count = streak[c])
      => /\ creds[c].status = "invalid"
         /\ ~ Eligible(creds, companies, c, creds[c].source)

\* C6: selection and the use_count / last_used update are one atomic step:
\* no caller marks used a credential that another caller took since it was
\* selected while an eligible credential sorts before it.
C6_BorrowIsAtomic ==
  \A w \in Workers : borrower[w].pc = "done" => ~ borrower[w].raced

\* C7: verifying the access token issued for an identity returns exactly
\* that identity.
C7_RoundTrip ==
  (resp.kind = "login" /\ resp.ok)
    => verifyToken(resp.setCookies.accessToken, resp.at) = resp.identity

\* C8: when the access token verifies, requireAuth sets no cookies, issues
\* no pair and reads no directory row, whatever the refresh cookie holds.
C8_ValidAccessIsNotRefreshed ==
  (IsRequest /\ verifyToken(resp.req.cookies.accessToken, resp.at) # Null)
    => /\ resp.setCookies = NoPair
       /\ resp.lookups = 0
       /\ resp.via = "access"
       /\ resp.user = resp.req.cookies.accessToken.claims

\* the access token verified while a valid refresh token came with it
C8_Witness ==
  /\ IsRequest
  /\ verifyToken(resp.req.cookies.accessToken, resp.at) # Null
  /\ resp.req.cookies.refreshToken \in IssuableRefreshTokens
  /\ resp.at < resp.req.cookies.refreshToken.claims.exp
  /\ resp.next

\* C9: with an expired access token, a request before the refresh token's
\* expiry (active user) is admitted with a new pair issued at that time; a
\* request at or after the refresh token's expiry is rejected without any
\* token.
C9_RefreshWindow ==
  [][LET cookies == resp'.req.cookies
     IN  (/\ RequestStep
          /\ cookies.accessToken \in IssuableAccessTokens
          /\ now >= cookies.accessToken.claims.exp
          /\ cookies.refreshToken \in IssuableRefreshTokens)
           => IF now < cookies.refreshToken.claims.exp
                THEN ActiveUser(directory, cookies.refreshToken.claims.id) # Null
                       => /\ resp'.next
                          /\ resp'.setCookies =
                               generateTokens(
                                 directory[cookies.refreshToken.claims.id], now)
                          /\ jar' = resp'.setCookies
                ELSE /\ ~ resp'.next
                     /\ resp'.outcome \in {"401", "redirect"}
                     /\ resp'.setCookies = NoPair
                     /\ jar' = jar]_vars

\* the pair issued at 0 was presented after its refresh token expired and
\* the request was rejected
C9_Witness ==
  /\ IsRequest
  /\ resp.req.cookies.accessToken \in IssuableAccessTokens
  /\ resp.req.cookies.refreshToken \in IssuableRefreshTokens
  /\ resp.at >= resp.req.cookies.refreshToken.claims.exp
  /\ ~ resp.next

\* the pair was presented after the access token expired and before the
\* refresh token did, and the request was admitted with a new pair
C9_RefreshedWitness ==
  /\ IsRequest
  /\ resp.req.cookies.accessToken \in IssuableAccessTokens
  /\ resp.at >= resp.req.cookies.accessToken.claims.exp
  /\ resp.via = "refresh"
  /\ resp.setCookies # NoPair
  /\ resp.next

IsSuperadmin(user) ==
  user # Null /\ Has(user, "role") /\ user.role = "superadmin"

\* C10: a superadmin identity is admitted to every route target: the
\* dashboard, the patcher, dev-sync and every tradeline slug, each at its
\* own port, whatever its domain.
C10_SuperadminAdmittedEverywhere ==
  (IsRequest /\ IsSuperadmin(resp.user))
    => /\ resp.req.route \in {"/dashboard", "/patcher", "/dev-sync"}
            => resp.outcome = "proxy"
       /\ \A route \in {"/dashboard", "/css", "/js", "/images",
                        "/patcher", "/dev-sync"} :
            RouteHandler([resp.req EXCEPT !.route = route],
                         resp.user).outcome = "proxy"
       /\ \A name \in DOMAIN tradelinePorts :
            LET h == RouteHandler([resp.req EXCEPT !.route = "/tradelines",
                                                   !.name = name], resp.user)
            IN  h.outcome = "proxy" /\ h.forward.port = tradelinePorts[name]

\* a superadmin of the portal domain was forwarded to the patcher
C10_Witness ==
  /\ IsRequest
  /\ IsSuperadmin(resp.user)
  /\ resp.user.domain = "portal"
  /\ resp.req.route = "/patcher"
  /\ resp.outcome = "proxy"
  /\ resp.forward.port = 7101

\* C11: on /patcher and /dev-sync an authenticated identity is forwarded
\* exactly when its domain is engine or its role is superadmin; any other
\* identity gets 403 and nothing is forwarded.
C11_AdminGate ==
  (IsRequest /\ resp.next /\ resp.req.route \in {"/patcher", "/dev-sync"})
    => LET admin == \/ (Has(resp.user, "domain") /\ resp.user.domain = "engine")
                    \/ (Has(resp.user, "role") /\ resp.user.role = "superadmin")
       IN  IF admin
             THEN /\ resp.outcome = "proxy"
                  /\ resp.forward.sent
                  /\ resp.forward.port = 7101
             ELSE /\ resp.outcome = "403"
                  /\ resp.body = "Forbidden - Admin access required"
                  /\ resp.forward = NoForward

\* a user of the portal domain asked for /dev-sync and got 403
C11_Witness ==
  /\ IsRequest
  /\ resp.next
  /\ resp.req.route = "/dev-sync"
  /\ Has(resp.user, "role") /\ resp.user.role = "user"
  /\ Has(resp.user, "domain") /\ resp.user.domain = "portal"
  /\ resp.outcome = "403"

\* an engine user who is not a superadmin was forwarded to dev-sync
C11_AdmittedWitness ==
  /\ IsRequest
  /\ resp.req.route = "/dev-sync"
  /\ Has(resp.user, "role") /\ resp.user.role = "user"
  /\ resp.user.domain = "engine"
  /\ resp.outcome = "proxy"

\* C12: a borrow returns one of the eligible credentials of the source that
\* no other eligible credential precedes in the order (last_used, never used
\* first, then use_count); each later borrow does so on the updated table.
C12_BorrowReturnsOldest ==
  \A w \in Workers :
    (borrower[w].pc = "done" /\ borrower[w].cands # {})
      => borrower[w].result \in borrower[w].cands

\* the source has no credential with status valid or pending
NoneUsable(rows, source) ==
  \A c \in CredIds :
    rows[c].source = source => rows[c].status \notin {"valid", "pending"}

\* C13: a borrow for a source without any valid or pending credential ends at
\* once with the empty result and leaves every credential record as it was.
C13_NoCredentialAvailable ==
  [][\A w \in Workers :
       (/\ borrower[w].pc # "selected"
        /\ borrower'[w] # borrower[w]
        /\ NoneUsable(creds, borrower'[w].source))
         => /\ borrower'[w].pc = "done"
            /\ borrower'[w].result = "none"
            /\ borrower'[w].v_cred = "none"
            /\ creds' = creds]_vars

\* a borrow for a source whose only credential is invalid returned nothing
C13_Witness ==
  \E w \in Workers :
    /\ borrower[w].pc = "done"
    /\ borrower[w].result = "none"
    /\ NoneUsable(creds, borrower[w].source)
    /\ \E c \in CredIds : /\ creds[c].source = borrower[w].source
                          /\ creds[c].status = "invalid"
                          /\ creds[c].is_configured
                          /\ companies[creds[c].company_id]
                          /\ RecordIsNotNull(creds[c])

\* C14: in every state of a credential record, failure_count at or above the
\* threshold implies status invalid.
C14_ThresholdForcesInvalid ==
  \A c \in CredIds :
    creds[c].failure_count >= FailureThreshold => creds[c].status = "invalid"

\* C15: a credential whose status is invalid never again satisfies the
\* selection of a borrow and is never handed out, whatever borrows and
\* reports follow.
C15_InvalidIsPermanent ==
  [][\A c \in CredIds :
       creds[c].status = "invalid"
         => /\ ~ Eligible(creds', companies', c, creds'[c].source)
            /\ \A w \in Workers :
                 borrower'[w].pc = "selected" => borrower'[w].v_cred # c]_vars

\* a token jwt.verify accepts at time t
WellFormedAndCurrent(token, t) ==
  /\ token \notin {NoToken, MalformedToken}
  /\ token.sig = JWT_SECRET
  /\ t < token.claims.exp

\* C16: for every cookie value a request carries, verifyToken returns null
\* without throwing when the token is missing, malformed, expired or signed
\* with another secret, and the token's claims otherwise; a token that does
\* not verify never becomes the identity of the request.
C16_VerifyNeverThrows ==
  IsRequest =>
    /\ \A token \in {resp.req.cookies.accessToken, resp.req.cookies.refreshToken} :
         LET v == verifyToken(token, resp.at)
         IN  /\ v # Thrown
             /\ IF WellFormedAndCurrent(token, resp.at)
                  THEN v = token.claims
                  ELSE v = Null
    /\ resp.user # Thrown
    /\ ~ WellFormedAndCurrent(resp.req.cookies.accessToken, resp.at)
         => resp.via # "access"

\* an expired access token was presented alone and the request was rejected
C16_Witness ==
  /\ IsRequest
  /\ resp.req.cookies.accessToken \in IssuableAccessTokens
  /\ resp.at >= resp.req.cookies.accessToken.claims.exp
  /\ resp.req.cookies.refreshToken = NoToken
  /\ resp.user = Null
  /\ ~ resp.next

\* cookies that are no tokens were presented and the request was rejected
C16_MalformedWitness ==
  /\ IsRequest
  /\ resp.req.cookies.accessToken = MalformedToken
  /\ resp.user = Null
  /\ resp.outcome = "redirect"

\* C17: a request whose access token and refresh token both fail to verify
\* (or are missing) is rejected before any route handler or backend: 401
\* when the path below the mount starts with /api/, a redirect to /login
\* otherwise; no cookie is set.
C17_NeitherVerifiesRejected ==
  (/\ IsRequest
   /\ ~ WellFormedAndCurrent(resp.req.cookies.accessToken, resp.at)
   /\ ~ WellFormedAndCurrent(resp.req.cookies.refreshToken, resp.at))
    => /\ ~ resp.next
       /\ resp.user = Null
       /\ resp.forward = NoForward
       /\ resp.setCookies = NoPair
       /\ resp.lookups = 0
       /\ IF resp.req.route \in MountedRoutes /\ resp.req.sub = "/api/data"
            THEN resp.outcome = "401" /\ resp.body = "Unauthorized"
            ELSE resp.outcome = "redirect" /\ resp.body = "/login"

\* an expired pair was presented on an API path and answered with 401
C17_Witness ==
  /\ IsRequest
  /\ resp.req.cookies.accessToken \in IssuableAccessTokens
  /\ resp.req.cookies.refreshToken \in IssuableRefreshTokens
  /\ resp.at >= resp.req.cookies.refreshToken.claims.exp
  /\ resp.req.sub = "/api/data"
  /\ resp.outcome = "401"

\* a request without cookies was redirected to /login
C17_RedirectWitness ==
  /\ IsRequest
  /\ resp.req.cookies = NoPair
  /\ resp.outcome = "redirect"

\* C18: once a refresh token has bought a new pair, presenting that same
\* refresh token again, now stale, without a valid access token does not
\* refresh again.
C18_StaleRefreshTokenUnusable ==
  [][(/\ IsRequest
      /\ resp.via = "refresh"
      /\ jar.refreshToken # resp.req.cookies.refreshToken
      /\ RequestStep
      /\ resp'.req.cookies.refreshToken = resp.req.cookies.refreshToken
      /\ ~ WellFormedAndCurrent(resp'.req.cookies.accessToken, now))
       => /\ resp'.via # "refresh"
          /\ resp'.setCookies = NoPair
          /\ ~ resp'.next]_vars

\* C19: a request admitted by a refresh has set both cookies, each to a
\* token issued at the time of the request with its full lifetime, and the
\* browser holds exactly that pair.
C19_RefreshReplacesBothCookies ==
  (IsRequest /\ resp.via = "refresh")
    => /\ resp.setCookies.accessToken # NoToken
       /\ resp.setCookies.refreshToken # NoToken
       /\ resp.setCookies.accessToken.claims.iat = resp.at
       /\ resp.setCookies.accessToken.claims.exp = resp.at + JWT_EXPIRES_IN
       /\ ~ Has(resp.setCookies.accessToken.claims, "type")
       /\ resp.setCookies.refreshToken.claims.iat = resp.at
       /\ resp.setCookies.refreshToken.claims.exp = resp.at + REFRESH_EXPIRES_IN
       /\ resp.setCookies.refreshToken.claims.type = "refresh"
       /\ jar = resp.setCookies

\* a pair issued at 0 was refreshed later: both cookies changed
C19_Witness ==
  /\ IsRequest
  /\ resp.via = "refresh"
  /\ resp.req.cookies.accessToken \in IssuableAccessTokens
  /\ resp.req.cookies.refreshToken \in IssuableRefreshTokens
  /\ resp.at > resp.req.cookies.refreshToken.claims.iat
  /\ jar.accessToken # resp.req.cookies.accessToken
  /\ jar.refreshToken # resp.req.cookies.refreshToken

\* C20: a request that enters the refresh path gets its identity from the
\* directory as it is now: role and domain of the request's identity and of
\* the new access token are the directory's; when the directory has no
\* active user for the refresh token's id, nothing is issued and the request
\* is rejected.
C20_RefreshRereadsDirectory ==
  [][LET cookies == resp'.req.cookies
         id == cookies.refreshToken.claims.id
     IN  (/\ RequestStep
          /\ ~ WellFormedAndCurrent(cookies.accessToken, now)
          /\ WellFormedAndCurrent(cookies.refreshToken, now)
          /\ Has(cookies.refreshToken.claims, "type")
          /\ cookies.refreshToken.claims.type = "refresh")
           => IF id \in DOMAIN directory /\ directory[id].is_active
                THEN /\ resp'.via = "refresh"
                     /\ resp'.next
                     /\ resp'.user.id = id
                     /\ resp'.user.role = directory[id].role
                     /\ resp'.user.domain = directory[id].domain
                     /\ resp'.setCookies.accessToken.claims.role
                          = directory[id].role
                     /\ resp'.setCookies.accessToken.claims.domain
                          = directory[id].domain
                ELSE /\ resp'.setCookies = NoPair
                     /\ resp'.user = Null
                     /\ ~ resp'.next
                     /\ resp'.outcome \in {"401", "redirect"}
                     /\ jar' = jar]_vars

\* a refresh gave the request a role other than the one of the expired
\* access token
C20_Witness ==
  /\ IsRequest
  /\ resp.via = "refresh"
  /\ resp.req.cookies.accessToken \in IssuableAccessTokens
  /\ resp.req.cookies.refreshToken.claims.id
       = resp.req.cookies.accessToken.claims.id
  /\ resp.user.role # resp.req.cookies.accessToken.claims.role
  /\ resp.setCookies.accessToken.claims.role = resp.user.role

\* a valid refresh token of a deactivated user was presented and rejected
C20_InactiveWitness ==
  /\ IsRequest
  /\ ~ WellFormedAndCurrent(resp.req.cookies.accessToken, resp.at)
  /\ WellFormedAndCurrent(resp.req.cookies.refreshToken, resp.at)
  /\ Has(resp.req.cookies.refreshToken.claims, "type")
  /\ resp.lookups = 1
  /\ ~ directory[resp.req.cookies.refreshToken.claims.id].is_active
  /\ ~ resp.next

\* C21: every request the proxy forwards carries the seven identity
\* headers, each written by the gateway from the identity of that request,
\* with X-Gateway-Auth: true.
C21_ForwardedCarriesIdentity ==
  (IsRequest /\ resp.forward.sent)
    => /\ resp.user # Null
       /\ \A h \in IdentityHeaders : resp.forward.headers[h].src = "gateway"
       /\ resp.forward.headers["x-user-id"].val = resp.user.id
       /\ resp.forward.headers["x-user-email"].val = resp.user.email
       /\ resp.forward.headers["x-user-name"].val = resp.user.name
       /\ resp.forward.headers["x-user-role"].val = resp.user.role
       /\ resp.forward.headers["x-user-domain"].val = resp.user.domain
       /\ resp.forward.headers["x-company-id"].val = resp.user.company_id
       /\ resp.forward.headers["x-gateway-auth"].val = "true"

\* a request with spoofed identity headers was forwarded to a tradeline
\* backend with the headers of its verified identity
C21_Witness ==
  /\ IsRequest
  /\ resp.forward.sent
  /\ resp.req.route = "/tradelines"
  /\ resp.req.headers["x-user-id"] = FromCaller("u0")
  /\ resp.forward.headers["x-user-id"] = FromGateway("u1")
  /\ resp.forward.headers["x-gateway-auth"] = FromGateway("true")

\* C22: requireGatewayAuth answers 401 to every request whose
\* X-Gateway-Auth header is absent or is not exactly 'true', whatever
\* X-User-* headers come with it; no middleware attaches a user without the
\* marker, and with the marker the request proceeds as the user the headers
\* name.
C22_BackendRequiresMarker ==
  bresp.kind = "request" =>
    LET marker == bresp.headers["x-gateway-auth"]
        marked == marker.src # "absent" /\ marker.val = "true"
    IN  /\ ~ marked => bresp.out.gatewayUser = Null
        /\ (~ marked /\ bresp.mw = "requireGatewayAuth")
             => bresp.out.outcome = "401"
        /\ (marked /\ bresp.mw = "requireGatewayAuth")
             => /\ bresp.out.outcome = "next"
                /\ bresp.out.gatewayUser # Null
                /\ bresp.out.gatewayUser.role
                     = HeaderValue(bresp.headers, "x-user-role")

\* a request that claims to be a superadmin but carries the marker 'TRUE'
\* was refused by requireGatewayAuth
C22_Witness ==
  /\ bresp.kind = "request"
  /\ bresp.mw = "requireGatewayAuth"
  /\ bresp.headers["x-gateway-auth"] = FromCaller("TRUE")
  /\ bresp.headers["x-user-role"] = FromCaller("superadmin")
  /\ bresp.out.outcome = "401"

\* C23: when the backend of a forwarded request cannot be reached, the
\* caller gets 502 with a message that shows no backend's host, and
\* the request was sent once.
C23_BackendDown502 ==
  (IsSessionRequest /\ sresp.forward.sent /\ ~ sresp.reachable)
    => /\ sresp.outcome = "502"
       /\ sresp.host \notin {TRADELINES[slug].host : slug \in DOMAIN TRADELINES}
       /\ sresp.attempts = 1

\* C24: GET /api/credentials/{companyId}/{source} answers 401 whenever the
\* x-api-key header differs from the secret, whether or not the pair has a
\* row; 404 when the header matches and the pair has no row; and otherwise
\* the username, password and api_key stored for exactly that pair.
IsCredentialsAnswer == aresp.kind = "credentials"
RequiredProduct(route) ==
  CASE route = "/portal"    -> "nextbid"
    [] route = "/bidder"    -> "nextbidder"
    [] route = "/tech"      -> "nexttech"
    [] route = "/source"    -> "nextsource"
    [] route = "/dashboard" -> "dashboard"

\* the product entitlements of a verified identity: the payload
\* generateTokens signs has no products property
products(user) == IF Has(user, "products") THEN user.products ELSE {}

\* C25: a request to a route that requires a product is forwarded only when
\* the identity's product set contains that product or its role is
\* superadmin; otherwise the answer is 403.
C25_ProductGate ==
  (IsRequest /\ resp.user # Null /\ resp.req.route \in {"/portal", "/bidder", "/tech", "/source", "/dashboard"}
     /\ RequiredProduct(resp.req.route) \notin products(resp.user)
     /\ ~ (Has(resp.user, "role") /\ resp.user.role = "superadmin"))
    => /\ resp.outcome = "403"
       /\ ~ resp.forward.sent

\* C26: every authentication and authorization decision (a login, accepted
\* or refused, a logout, a token refresh, or a request turned away with 401,
\* a redirect to /login or 403) appends an entry to the audit log.
C26_EveryDecisionAudited ==
  (\/ resp.kind \in {"login", "logout"}
   \/ /\ IsRequest
      /\ \/ resp.via = "refresh"
         \/ resp.outcome \in {"401", "redirect", "403"})
    => resp.audit # NoAudit

C28_ReportFailureEffect ==
  [][\A c \in CredIds :
       streak'[c] = streak[c] + 1
         => /\ creds'[c].failure_count = creds[c].failure_count + 1
            /\ creds'[c].last_error = "login failed"
            /\ creds'[c].failure_count < FailureThreshold
                 => creds'[c].status = "pending"
            /\ creds'[c].use_count = creds[c].use_count
            /\ creds'[c].success_count = creds[c].success_count
            /\ creds'[c].last_used = creds[c].last_used
            /\ \A d \in CredIds \ {c} : creds'[d] = creds[d]]_vars

\* a credential that a success report had made valid is pending after the
\* one failure that followed
C28_Witness ==
  \E c \in CredIds :
    /\ streak[c] = 1
    /\ creds[c].failure_count = 1
    /\ creds[c].success_count = 1
    /\ creds[c].status = "pending"
    /\ creds[c].last_error = "login failed"

\* C29: a reportSuccess on a credential makes its status valid, adds exactly
\* one to its success_count and clears last_error, whatever the status was;
\* failure_count, use_count and last_used of the credential stay as they
\* were.
C29_ReportSuccessEffect ==
  [][\A c \in CredIds :
       creds'[c].success_count # creds[c].success_count
         => /\ creds'[c].status = "valid"
            /\ creds'[c].success_count = creds[c].success_count + 1
            /\ creds'[c].last_error = NullText
            /\ creds'[c].failure_count = creds[c].failure_count
            /\ creds'[c].use_count = creds[c].use_count
            /\ creds'[c].last_used = creds[c].last_used]_vars

\* a credential that six failures had made invalid is valid after a success
\* report, with its failure_count kept
C29_Witness ==
  \E c \in CredIds :
    /\ creds[c].status = "valid"
    /\ creds[c].success_count = 1
    /\ creds[c].failure_count > FailureThreshold
    /\ creds[c].last_error = NullText

\* the eligible credentials of the source that were never used
NeverUsed(rows, comps, source) ==
  {c \in CredIds :
     Eligible(rows, comps, c, source) /\ rows[c].last_used = NullTime}

\* C30: sequential borrows spread the load over the eligible credentials of
\* a source: a borrow that finds eligible credentials hands one out, and
\* while a never-used credential is eligible the very next borrow hands out
\* a never-used one.
C30_NeverUsedGoesFirst ==
  [][\A w \in Workers :
       (borrower[w].pc # "selected" /\ borrower'[w] # borrower[w])
         => /\ FirstCandidates(creds, companies, borrower'[w].source) # {}
                 => borrower'[w].pc = "selected"
            /\ NeverUsed(creds, companies, borrower'[w].source) # {}
                 => /\ borrower'[w].pc = "selected"
                    /\ borrower'[w].v_cred
                         \in NeverUsed(creds, companies,
                                       borrower'[w].source)]_vars

\* event a occurs in the log, and before every occurrence of event b
Precedes(log, a, b) ==
  \E i \in 1..Len(log) :
    /\ log[i] = a
    /\ \A j \in 1..Len(log) : log[j] = b => i < j

\* C31: when a request is refreshed and then proxied, both new cookies are
\* set on the response before the request to the backend is issued.
C31_CookiesBeforeProxy ==
  \A r \in Flights :
    (flight[r].pc = "done" /\ flight[r].refreshed /\ flight[r].forward.sent)
      => /\ Precedes(flight[r].log, "setAuthCookies", "proxyReq")
         /\ flight[r].setCookies.accessToken # NoToken
         /\ flight[r].setCookies.refreshToken # NoToken

\* a request with an expired access token was refreshed after its directory
\* query returned and was forwarded to the dashboard
C31_Witness ==
  \E r \in Flights :
    /\ flight[r].pc = "done"
    /\ flight[r].refreshed
    /\ flight[r].forward.sent
    /\ flight[r].req.route = "/dashboard"
    /\ flight[r].log = <<"setAuthCookies", "next", "proxyReq">>

\* the identity a request was admitted under is what the directory holds
\* now: the user is active, and the role and domain the identity carries
\* are the row's
AsDirectory(user, dir) ==
  /\ Has(user, "id") /\ user.id \in DOMAIN dir
  /\ dir[user.id].is_active
  /\ Has(user, "role") => user.role = dir[user.id].role
  /\ Has(user, "domain") => user.domain = dir[user.id].domain

\* C32: after a change of a user's role, domain or activation, a request
\* with a current access token issued before the change is admitted as that
\* token says; a request admitted by a refresh is admitted as the directory
\* says; and no request is admitted otherwise than the directory says later
\* than one access-token lifetime after the change.
C32_DowngradeTakesEffect ==
  [][(RequestStep /\ changedAt # NoChange /\ resp'.next)
       => /\ WellFormedAndCurrent(resp'.req.cookies.accessToken, now)
               => resp'.user = resp'.req.cookies.accessToken.claims
          /\ resp'.via = "refresh" => AsDirectory(resp'.user, directory)
          /\ ~ AsDirectory(resp'.user, directory)
               => now <= changedAt + JWT_EXPIRES_IN]_vars

\* C33: a request without a verified identity is never answered 403 and is
\* never forwarded: on the JWT gateway and on the session gateways it is
\* answered 401 or redirected to /login (404 where no route matches).
C33_AuthenticationFirst ==
  /\ (IsRequest /\ resp.user = Null)
       => /\ resp.outcome \in {"401", "redirect"}
          /\ ~ resp.forward.sent
  /\ (IsSessionRequest /\ sresp.user = Null)
       => /\ sresp.outcome \in {"401", "redirect", "404"}
          /\ ~ sresp.forward.sent

\* C34: for every identity the gateway can hold, the backend's requireAdmin
\* on the headers the proxy injects admits the request exactly when the
\* gateway's requireAdmin admits the identity.
C34_AdminDecisionsAgree ==
  bresp.kind = "proxied" => (bresp.gateway <=> bresp.out.outcome = "next")

\* an engine identity without a role went out with the default role 'user'
\* and both sides admitted it
C34_Witness ==
  /\ bresp.kind = "proxied"
  /\ ~ Has(bresp.user, "role")
  /\ Has(bresp.user, "domain") /\ bresp.user.domain = "engine"
  /\ bresp.headers["x-user-role"] = FromGateway("user")
  /\ bresp.gateway
  /\ bresp.out.outcome = "next"

\* C35: a request to the internal service API that carries no x-api-key
\* header is answered 401, whether or not INTERNAL_API_KEY is set.
C35_NoKeyNoAccess ==
  (aresp.kind \in {"credentials", "companies"} /\ aresp.apiKey = Undefined)
    => aresp.answer.status = "401"

\* C36: an authenticated request to /tradelines/<name> is forwarded only
\* when <name> is one of the configured slugs, and then to that slug's port;
\* for every other name the answer is 404 and nothing is forwarded.
C36_OnlyConfiguredSlugs ==
  \A r \in Flights :
    (flight[r].pc = "done" /\ flight[r].user # Null
       /\ flight[r].req.route = "/tradelines")
      => IF flight[r].req.name \in DOMAIN tradelinePorts
           THEN /\ flight[r].forward.sent
                   => flight[r].forward.port
                        = tradelinePorts[flight[r].req.name]
           ELSE /\ flight[r].outcome = "404"
                /\ ~ flight[r].forward.sent

\* the request came with an access token that has expired and a refresh
\* token that is current
ExpiredAccessValidRefresh(req, t) ==
  /\ req.cookies.accessToken.sig = JWT_SECRET
  /\ t >= req.cookies.accessToken.claims.exp
  /\ WellFormedAndCurrent(req.cookies.refreshToken, t)

\* C37: two requests in progress at once that present the same expired
\* access token and the same current refresh token of an active user are
\* both refreshed and both admitted, in whatever order their directory
\* queries return.
C37_ConcurrentRefreshes ==
  \A r \in Flights :
    (/\ flight[r].pc = "done"
     /\ ExpiredAccessValidRefresh(flight[r].req, now)
     /\ directory[flight[r].req.cookies.refreshToken.claims.id].is_active
     /\ flight[r].query # "failed")
      => /\ flight[r].refreshed
         /\ flight[r].user # Null
         /\ flight[r].outcome \notin {"401", "redirect"}

\* both requests carried the same pair and both were refreshed
C37_Witness ==
  /\ \A r \in Flights :
       /\ flight[r].pc = "done"
       /\ flight[r].refreshed
       /\ ExpiredAccessValidRefresh(flight[r].req, now)
  /\ flight["r1"].req.cookies = flight["r2"].req.cookies

\* C38: no increment of a borrow is lost: in every step the use_count of
\* each credential grows by the number of borrows that return it in that
\* step, so after any interleaving the use_counts have grown by the number of
\* times each credential was returned.
C38_NoLostIncrement ==
  [][\A c \in CredIds :
       creds'[c].use_count
         = creds[c].use_count
             + Cardinality({w \in Workers :
                              /\ borrower[w].pc = "selected"
                              /\ borrower'[w].pc = "done"
                              /\ borrower'[w].result = c})]_vars

\* two concurrent borrows selected the same credential before either marked
\* it used; both returned it and it counts two uses
C38_Witness ==
  /\ borrower["w1"].pc = "done" /\ borrower["w2"].pc = "done"
  /\ borrower["w1"].result # "none"
  /\ borrower["w1"].result = borrower["w2"].result
  /\ borrower["w2"].raced
  /\ creds[borrower["w1"].result].use_count = 2

\* how often an event occurs in a log
Count(log, e) == Cardinality({i \in 1..Len(log) : log[i] = e})

C40_RegistrationIsNeverAdmin ==
  /\ (resp.kind = "register" /\ resp.ok)
       => /\ directory[NewUserId].domain = "portal"
          /\ directory[NewUserId].role = "owner"
          /\ resp.setCookies.accessToken.claims.domain = "portal"
          /\ resp.setCookies.accessToken.claims.role = "owner"
  /\ (IsRequest /\ resp.req.route \in AdminRoutes /\ resp.user # Null
        /\ resp.user.id = NewUserId)
       => /\ resp.outcome = "403"
          /\ ~ resp.forward.sent

\* a registration that asked for role superadmin and domain engine was
\* accepted, and the new user's request to /patcher got 403
C40_Witness ==
  /\ IsRequest
  /\ resp.req.route = "/patcher"
  /\ resp.user # Null
  /\ resp.user.id = NewUserId
  /\ resp.via = "access"
  /\ resp.outcome = "403"
  /\ directory[NewUserId].name = "Eve"

====
